---- MODULE Spec2Model ----
(***************************************************************************)
(* The three scraper scripts of the repository as one state machine:       *)
(*   "static"  src/birdslide/scripts/scrape_ebird.py (requests + bs4)      *)
(*   "browser" src/scripts/scrape_ebird.py           (Playwright)          *)
(*   "inat"    src/scripts/scrape_inat.py            (iNaturalist API)     *)
(* One run of one script is one behaviour: Init fixes the script, its      *)
(* command line and the file left by an earlier run; the actions are the   *)
(* statements of main() and of the scrape function, in program order.      *)
(*                                                                         *)
(* A Python str is a sequence of one-character strings, so that len(),     *)
(* lower(), replace(), split(), int() and the regular expressions are      *)
(* computed character by character.  Python's None is NoneV where a str is *)
(* expected and NoneDict where a dict is expected.                         *)
(***************************************************************************)
EXTENDS Integers, Sequences, FiniteSets, TLC

----------------------------------------------------------------------------
(* Python values *)

NoneV == <<"None">>
NoneDict == [none |-> TRUE]
EmptyDict == <<>>

\* bool(v) of a str-or-None value: None and '' are falsy
Truthy(v) == v # NoneV /\ v # <<>>

\* dict.get(key, default): the default only when the key is absent
Get(d, k, default) == IF k \in DOMAIN d THEN d[k] ELSE default

\* d[key] = value on a dict modelled as a function
DictSet(d, k, v) == [x \in (DOMAIN d) \cup {k} |-> IF x = k THEN v ELSE d[x]]

\* d.update(e)
DictUpdate(d, e) == [x \in (DOMAIN d) \cup (DOMAIN e) |-> IF x \in DOMAIN e THEN e[x] ELSE d[x]]

Min(a, b) == IF a <= b THEN a ELSE b

----------------------------------------------------------------------------
(* str operations *)

DigitChars == <<"0","1","2","3","4","5","6","7","8","9">>
LowerAlpha == <<"a","b","c","d","e","f","g","h","i","j","k","l","m","n","o","p","q","r","s","t","u","v","w","x","y","z">>
UpperAlpha == <<"A","B","C","D","E","F","G","H","I","J","K","L","M","N","O","P","Q","R","S","T","U","V","W","X","Y","Z">>

Range(f) == {f[i] : i \in DOMAIN f}

DigitSet == Range(DigitChars)
LowerSet == Range(LowerAlpha)
UpperSet == Range(UpperAlpha)
SpaceSet == {" ", "\t", "\n", "\r"}
\* \w of the re module
WordSet == DigitSet \cup LowerSet \cup UpperSet \cup {"_"}

IsDigit(c) == c \in DigitSet
IsSpace(c) == c \in SpaceSet
IsWord(c) == c \in WordSet

IndexIn(c, alphabet) == CHOOSE i \in DOMAIN alphabet : alphabet[i] = c

LowerChar(c) == IF c \in UpperSet THEN LowerAlpha[IndexIn(c, UpperAlpha)] ELSE c
UpperChar(c) == IF c \in LowerSet THEN UpperAlpha[IndexIn(c, LowerAlpha)] ELSE c

\* str.lower(), str.upper()
Lower(s) == [i \in 1..Len(s) |-> LowerChar(s[i])]
Upper(s) == [i \in 1..Len(s) |-> UpperChar(s[i])]

\* s[i:].startswith(lit), i counted from 1
StartsWithAt(s, i, lit) ==
    /\ i + Len(lit) - 1 <= Len(s)
    /\ \A k \in 1..Len(lit) : s[i + k - 1] = lit[k]

\* the same, ignoring letter case (re.IGNORECASE)
StartsWithAtCI(s, i, lit) ==
    /\ i + Len(lit) - 1 <= Len(s)
    /\ \A k \in 1..Len(lit) : LowerChar(s[i + k - 1]) = LowerChar(lit[k])

\* s.startswith(lit)
StartsWith(s, lit) == StartsWithAt(s, 1, lit)

\* lit in s
Contains(s, lit) == \E i \in 1..(Len(s) + 1) : StartsWithAt(s, i, lit)

\* s[i:], i counted from 1
DropTo(s, i) == SubSeq(s, i, Len(s))

\* s.find(lit) counted from 1, 0 when absent
Find(s, lit) ==
    IF Contains(s, lit)
    THEN CHOOSE i \in 1..(Len(s) + 1) :
            /\ StartsWithAt(s, i, lit)
            /\ \A j \in 1..(i - 1) : ~StartsWithAt(s, j, lit)
    ELSE 0

\* s.replace(old, new): every non-overlapping occurrence, left to right
RECURSIVE Replace(_, _, _)
Replace(s, old, new) ==
    IF Find(s, old) = 0
    THEN s
    ELSE SubSeq(s, 1, Find(s, old) - 1) \o new
            \o Replace(DropTo(s, Find(s, old) + Len(old)), old, new)

\* s.split('=', 1): one element when s holds no '=', two otherwise
SplitEq(s) ==
    IF Find(s, <<"=">>) = 0
    THEN <<s>>
    ELSE <<SubSeq(s, 1, Find(s, <<"=">>) - 1), DropTo(s, Find(s, <<"=">>) + 1)>>

\* s.isdigit()
IsDigitStr(s) == Len(s) > 0 /\ \A i \in 1..Len(s) : IsDigit(s[i])

\* int(s) succeeds: an optional sign and at least one digit
IsIntStr(s) ==
    IF Len(s) > 0 /\ s[1] \in {"-", "+"} THEN IsDigitStr(Tail(s)) ELSE IsDigitStr(s)

RECURSIVE DigitsValue(_)
DigitsValue(s) ==
    IF s = <<>> THEN 0
    ELSE 10 * DigitsValue(SubSeq(s, 1, Len(s) - 1)) + (IndexIn(s[Len(s)], DigitChars) - 1)

\* int(s) where IsIntStr(s)
ParseInt(s) ==
    IF s[1] = "-" THEN 0 - DigitsValue(Tail(s))
    ELSE IF s[1] = "+" THEN DigitsValue(Tail(s))
    ELSE DigitsValue(s)

\* str(n) of an int n >= 0
RECURSIVE NatToStr(_)
NatToStr(n) ==
    IF n < 10 THEN <<DigitChars[n + 1]>>
    ELSE NatToStr(n \div 10) \o <<DigitChars[(n % 10) + 1]>>

\* the length of the run of digits that starts at s[i]
RECURSIVE DigitRunLen(_, _)
DigitRunLen(s, i) ==
    IF i <= Len(s) /\ IsDigit(s[i]) THEN 1 + DigitRunLen(s, i + 1) ELSE 0

----------------------------------------------------------------------------
(* Regular expressions                                                     *)
(* A pattern is a sequence of elements, matched left to right:             *)
(*   lit  a literal (ci: letter case ignored)     ws   \s*                 *)
(*   opt  one optional character of a class       one  one character       *)
(*   alt  the first of several literals           wb   \b                  *)
(*   dig  the capturing group (\d{lo,hi}), hi = 0 for \d+                  *)
(* Every quantifier is greedy.  In each pattern of the scripts the element *)
(* after a quantifier starts with a character outside the quantified class *)
(* (or is \b after digits), so re never gives a character back and greedy  *)
(* matching without backtracking is what re computes.                      *)

Lit(v) == [t |-> "lit", v |-> v, ci |-> FALSE]
LitCI(v) == [t |-> "lit", v |-> v, ci |-> TRUE]
Ws == [t |-> "ws"]
Opt(cs) == [t |-> "opt", cs |-> cs]
One(cs) == [t |-> "one", cs |-> cs]
AltCI(vs) == [t |-> "alt", vs |-> vs]
Dig(lo, hi) == [t |-> "dig", lo |-> lo, hi |-> hi]
Wb == [t |-> "wb"]

NoMatch == [ok |-> FALSE, end |-> 0, cap |-> <<>>]

RECURSIVE SpaceRunLen(_, _)
SpaceRunLen(s, i) ==
    IF i <= Len(s) /\ IsSpace(s[i]) THEN 1 + SpaceRunLen(s, i + 1) ELSE 0

\* \b at the gap before s[i]
AtWordBoundary(s, i) ==
    (i > 1 /\ IsWord(s[i - 1])) # (i <= Len(s) /\ IsWord(s[i]))

\* the alternatives of an alt element that match at s[i], by their index
AltHits(e, s, i) == {a \in DOMAIN e.vs : StartsWithAtCI(s, i, e.vs[a])}

\* pattern elements k.. matched at s[i]: [ok, end (the index after the match), cap (group 1)]
RECURSIVE MatchFrom(_, _, _, _, _)
MatchFrom(pat, k, s, i, cap) ==
    IF k > Len(pat) THEN [ok |-> TRUE, end |-> i, cap |-> cap]
    ELSE LET e == pat[k] IN
        CASE e.t = "lit" ->
                IF (IF e.ci THEN StartsWithAtCI(s, i, e.v) ELSE StartsWithAt(s, i, e.v))
                THEN MatchFrom(pat, k + 1, s, i + Len(e.v), cap)
                ELSE NoMatch
          [] e.t = "ws" -> MatchFrom(pat, k + 1, s, i + SpaceRunLen(s, i), cap)
          [] e.t = "opt" ->
                IF i <= Len(s) /\ s[i] \in e.cs
                THEN MatchFrom(pat, k + 1, s, i + 1, cap)
                ELSE MatchFrom(pat, k + 1, s, i, cap)
          [] e.t = "one" ->
                IF i <= Len(s) /\ s[i] \in e.cs
                THEN MatchFrom(pat, k + 1, s, i + 1, cap)
                ELSE NoMatch
          [] e.t = "alt" ->
                IF AltHits(e, s, i) = {} THEN NoMatch
                ELSE LET a == CHOOSE x \in AltHits(e, s, i) : \A y \in AltHits(e, s, i) : x <= y
                     IN MatchFrom(pat, k + 1, s, i + Len(e.vs[a]), cap)
          [] e.t = "dig" ->
                LET run == DigitRunLen(s, i)
                    n == IF e.hi = 0 THEN run ELSE Min(run, e.hi)
                IN IF run < e.lo THEN NoMatch
                   ELSE MatchFrom(pat, k + 1, s, i + n, SubSeq(s, i, i + n - 1))
          [] e.t = "wb" ->
                IF AtWordBoundary(s, i) THEN MatchFrom(pat, k + 1, s, i, cap) ELSE NoMatch

MatchAt(pat, s, i) == MatchFrom(pat, 1, s, i, <<>>)

\* the indexes of s at which the pattern matches
MatchStarts(pat, s) == {i \in 1..Len(s) : MatchAt(pat, s, i).ok}

\* the matches taken left to right, each search resuming where the last match ended
RECURSIVE CollectFrom(_, _, _, _)
CollectFrom(pat, s, starts, from) ==
    LET c == {i \in starts : i >= from} IN
    IF c = {} THEN <<>>
    ELSE LET j == CHOOSE x \in c : \A y \in c : x <= y
             m == MatchAt(pat, s, j)
         IN <<m.cap>> \o CollectFrom(pat, s, starts, m.end)

\* re.findall(pat, s): group 1 of every match
FindAll(pat, s) == CollectFrom(pat, s, MatchStarts(pat, s), 1)

\* re.search(pat, s) is not None
Search(pat, s) == MatchStarts(pat, s) # {}

\* re.search(pat, s).group(1)
SearchGroup1(pat, s) == FindAll(pat, s)[1]

\* macaulaylibrary.org/asset/
LitAssetUrl == <<"m","a","c","a","u","l","a","y","l","i","b","r","a","r","y",".","o","r","g","/","a","s","s","e","t","/">>
\* macaulaylibrary.org/asset
LitAssetHost == <<"m","a","c","a","u","l","a","y","l","i","b","r","a","r","y",".","o","r","g","/","a","s","s","e","t">>
\* /asset/
LitAssetPath == <<"/","a","s","s","e","t","/">>
\* ML
LitML == <<"M","L">>
\* 'catalogId'
LitCatalogIdQ == <<"\"","c","a","t","a","l","o","g","I","d","\"">>
\* 'assetId'
LitAssetIdQ == <<"\"","a","s","s","e","t","I","d","\"">>
\* data-asset-id
LitDataAssetId == <<"d","a","t","a","-","a","s","s","e","t","-","i","d">>
\* assetId
LitAssetId == <<"a","s","s","e","t","I","d">>
\* catalogId
LitCatalogId == <<"c","a","t","a","l","o","g","I","d">>
\* jpg
LitJpg == <<"j","p","g">>
\* jpeg
LitJpeg == <<"j","p","e","g">>
\* png
LitPng == <<"p","n","g">>
\* webp
LitWebp == <<"w","e","b","p">>
\* <a href='
HtmlAOpen == <<"<","a"," ","h","r","e","f","=","\"">>
\* '></a>
HtmlAClose == <<"\"",">","<","/","a",">">>
\* <img src='
HtmlImgOpen == <<"<","i","m","g"," ","s","r","c","=","\"">>
\* '>
HtmlImgClose == <<"\"",">">>
\* <div data-asset-id='
HtmlDataOpen == <<"<","d","i","v"," ","d","a","t","a","-","a","s","s","e","t","-","i","d","=","\"">>
\* '></div>
HtmlDataClose == <<"\"",">","<","/","d","i","v",">">>
\* <script>
HtmlScriptOpen == <<"<","s","c","r","i","p","t",">">>
\* </script>
HtmlScriptClose == <<"<","/","s","c","r","i","p","t",">">>
\* <p>
HtmlPOpen == <<"<","p",">">>
\* </p>
HtmlPClose == <<"<","/","p",">">>

----------------------------------------------------------------------------
(* The fetched eBird page                                                  *)
(* A page is the sequence of its nodes in document order: [kind, val] with *)
(*   "a"      val = the href attribute      "img"    val = the src         *)
(*   "data"   val = the data-asset-id       "text"   val = a text node     *)
(*   "script" val = the body of an inline script                           *)

Node(kind, val) == [kind |-> kind, val |-> val]

\* the attribute values (or strings) of the nodes of one kind, in document order
RECURSIVE ValsOf(_, _)
ValsOf(page, kind) ==
    IF page = <<>> THEN <<>>
    ELSE (IF Head(page).kind = kind THEN <<Head(page).val>> ELSE <<>>) \o ValsOf(Tail(page), kind)

RECURSIVE Flatten(_)
Flatten(ss) == IF ss = <<>> THEN <<>> ELSE Head(ss) \o Flatten(Tail(ss))

\* xs[:n]
Take(xs, n) == SubSeq(xs, 1, Min(n, Len(xs)))

\* the markup of one node, as page.content() serialises it
Markup(n) ==
    CASE n.kind = "a" -> HtmlAOpen \o n.val \o HtmlAClose
      [] n.kind = "img" -> HtmlImgOpen \o n.val \o HtmlImgClose
      [] n.kind = "data" -> HtmlDataOpen \o n.val \o HtmlDataClose
      [] n.kind = "script" -> HtmlScriptOpen \o n.val \o HtmlScriptClose
      [] n.kind = "text" -> HtmlPOpen \o n.val \o HtmlPClose

\* page.content()
PageContent(page) == Flatten([i \in 1..Len(page) |-> Markup(page[i])])

\* soup.get_text(): the text nodes, joined without a separator
PageText(page) == Flatten(ValsOf(page, "text"))

----------------------------------------------------------------------------
(* src/birdslide/scripts/scrape_ebird.py: the static-HTML scraper *)

StaticMinLen == 8
StaticCap == 15
StaticReturnMax == 12

\* r'macaulaylibrary\.org/asset/(\d+)'
ReStaticAnchorFilter == <<Lit(LitAssetUrl), Dig(1, 0)>>
\* r'/asset/(\d+)'
ReStaticAnchorId == <<Lit(LitAssetPath), Dig(1, 0)>>
\* r'(\d{8,12})'
ReStaticImgFilter == <<Dig(8, 12)>>
\* r'\b(\d{8,12})\b'
ReStaticImgId == <<Wb, Dig(8, 12), Wb>>
\* r'ML(\d{8,12})'
ReStaticML == <<Lit(LitML), Dig(8, 12)>>

\* Pattern 1: anchors whose href holds an asset URL; the first /asset/<digits> of each
StaticPattern1(page) ==
    LET ml_links == SelectSeq(ValsOf(page, "a"), LAMBDA h : Search(ReStaticAnchorFilter, h))
    IN [i \in 1..Len(ml_links) |-> SearchGroup1(ReStaticAnchorId, ml_links[i])]

\* Pattern 2: images whose src holds 8 digits in a row; every whole-word run of 8-12 digits
StaticPattern2(page) ==
    LET ml_images == SelectSeq(ValsOf(page, "img"), LAMBDA s : Search(ReStaticImgFilter, s))
    IN Flatten([i \in 1..Len(ml_images) |-> FindAll(ReStaticImgId, ml_images[i])])

\* Pattern 3: data-asset-id attributes that are all digits
StaticPattern3(page) ==
    SelectSeq(ValsOf(page, "data"), LAMBDA v : Truthy(v) /\ IsDigitStr(v))

\* Pattern 4: ML<digits> in the text of the page
StaticPattern4(page) == FindAll(ReStaticML, PageText(page))

\* the de-duplication loop: first occurrences of length >= minLen, until cap are kept
RECURSIVE DedupeLoop(_, _, _, _, _, _)
DedupeLoop(assets, i, unique, seen, minLen, cap) ==
    IF i > Len(assets) THEN unique
    ELSE IF assets[i] \notin seen /\ Len(assets[i]) >= minLen
         THEN IF Len(unique) + 1 >= cap
              THEN Append(unique, assets[i])
              ELSE DedupeLoop(assets, i + 1, Append(unique, assets[i]), seen \cup {assets[i]}, minLen, cap)
         ELSE DedupeLoop(assets, i + 1, unique, seen, minLen, cap)

\* the loop without its seen set: repeats are kept
StaticDedupeNoSeen(assets) ==
    Take(SelectSeq(assets, LAMBDA a : Len(a) >= StaticMinLen), StaticCap)

StaticDedupe(assets) == DedupeLoop(assets, 1, <<>>, {}, StaticMinLen, StaticCap)

\* 629849023
Fallback1 == <<"6","2","9","8","4","9","0","2","3">>
\* 629848993
Fallback2 == <<"6","2","9","8","4","8","9","9","3">>
\* 629848963
Fallback3 == <<"6","2","9","8","4","8","9","6","3">>
\* 629848933
Fallback4 == <<"6","2","9","8","4","8","9","3","3">>
\* 629848903
Fallback5 == <<"6","2","9","8","4","8","9","0","3">>
\* 629848873
Fallback6 == <<"6","2","9","8","4","8","8","7","3">>
\* 629848843
Fallback7 == <<"6","2","9","8","4","8","8","4","3">>
\* 629848813
Fallback8 == <<"6","2","9","8","4","8","8","1","3">>

\* get_fallback_assets() of the static script
StaticFallbackAssets ==
    <<Fallback1, Fallback2, Fallback3, Fallback4, Fallback5, Fallback6, Fallback7, Fallback8>>

\* the list written inline in scrape_ebird_photos of the static script
StaticInlineFallback ==
    <<Fallback1, Fallback2, Fallback3, Fallback4, Fallback5, Fallback6, Fallback7, Fallback8>>

\* get_fallback_assets() of the browser script
BrowserFallbackAssets ==
    <<Fallback1, Fallback2, Fallback3, Fallback4, Fallback5, Fallback6, Fallback7, Fallback8>>

\* the return without the fallback on no match
StaticReturnNoFallback(unique) == Take(unique, StaticReturnMax)

\* the end of the static scrape_ebird_photos: the fallback on no match, then [:12]
StaticReturn(unique) ==
    Take(IF unique = <<>> THEN StaticInlineFallback ELSE unique, StaticReturnMax)

----------------------------------------------------------------------------
(* src/scripts/scrape_ebird.py: the browser-rendered scraper *)

BrowserMinLen == 8
BrowserCap == 50
BrowserReturnMax == 12
BrowserImgLimit == 20
BrowserLinkLimit == 50

Quotes == {"\"", "'"}

\* r'(\d{8,12})'
ReBrowserImgSrc == <<Dig(8, 12)>>
\* r'/asset/(\d{8,12})'
ReBrowserLink == <<Lit(LitAssetPath), Dig(8, 12)>>
\* r'macaulaylibrary\.org/asset/(\d{8,12})'
ReBrowserPattern1 == <<Lit(LitAssetUrl), Dig(8, 12)>>
\* r'ML(\d{8,12})'
ReBrowserPattern2 == <<Lit(LitML), Dig(8, 12)>>
\* r'"catalogId"\s*:\s*"?(\d{8,12})"?'
ReBrowserPattern3 == <<Lit(LitCatalogIdQ), Ws, One({":"}), Ws, Opt({"\""}), Dig(8, 12), Opt({"\""})>>
\* r'"assetId"\s*:\s*"?(\d{8,12})"?'
ReBrowserPattern4 == <<Lit(LitAssetIdQ), Ws, One({":"}), Ws, Opt({"\""}), Dig(8, 12), Opt({"\""})>>
\* r'/(\d{9,12})\.(jpg|jpeg|png|webp)', re.IGNORECASE
ReBrowserPattern5 == <<Lit(<<"/">>), Dig(9, 12), Lit(<<".">>), AltCI(<<LitJpg, LitJpeg, LitPng, LitWebp>>)>>
\* r'(?:data-asset-id|assetId|catalogId)["\']?\s*[:=]\s*["\']?(\d{8,12})', re.IGNORECASE
ReBrowserPattern6 ==
    <<AltCI(<<LitDataAssetId, LitAssetId, LitCatalogId>>), Opt(Quotes), Ws, One({":", "="}), Ws,
      Opt(Quotes), Dig(8, 12)>>

\* img_elements[:20] and link_elements[:50], as their src and href attributes
BrowserImgs(page) == Take(ValsOf(page, "img"), BrowserImgLimit)
BrowserLinks(page) == Take(ValsOf(page, "a"), BrowserLinkLimit)

\* the img loop over its first k elements: every run of 8-12 digits of each src
BrowserImgMatchesUpTo(page, k) ==
    LET srcs == SelectSeq(Take(BrowserImgs(page), k), Truthy)
    IN Flatten([i \in 1..Len(srcs) |-> FindAll(ReBrowserImgSrc, srcs[i])])

BrowserImgMatches(page) == BrowserImgMatchesUpTo(page, Len(BrowserImgs(page)))

\* the link loop over its first k elements: /asset/<digits> of each href that names
\* the Macaulay Library
BrowserLinkMatchesUpTo(page, k) ==
    LET hrefs == SelectSeq(Take(BrowserLinks(page), k),
                           LAMBDA h : Truthy(h) /\ Contains(h, LitAssetHost))
    IN Flatten([i \in 1..Len(hrefs) |-> FindAll(ReBrowserLink, hrefs[i])])

BrowserLinkMatches(page) == BrowserLinkMatchesUpTo(page, Len(BrowserLinks(page)))

\* Patterns 1-6 over page.content(), in program order
BrowserContentMatches(content) ==
    FindAll(ReBrowserPattern1, content) \o FindAll(ReBrowserPattern2, content)
        \o FindAll(ReBrowserPattern3, content) \o FindAll(ReBrowserPattern4, content)
        \o FindAll(ReBrowserPattern5, content) \o FindAll(ReBrowserPattern6, content)

BrowserDedupe(assets) == DedupeLoop(assets, 1, <<>>, {}, BrowserMinLen, BrowserCap)

\* the end of the browser scrape_ebird_photos: get_fallback_assets() on no match, else [:12]
BrowserReturn(unique) ==
    IF unique = <<>> THEN BrowserFallbackAssets ELSE Take(unique, BrowserReturnMax)

----------------------------------------------------------------------------
(* Sample pages *)

\* https://macaulaylibrary.org/asset/629849023
HrefAsset9 == <<"h","t","t","p","s",":","/","/","m","a","c","a","u","l","a","y","l","i","b","r","a","r","y",".","o","r","g","/","a","s","s","e","t","/","6","2","9","8","4","9","0","2","3">>
\* https://macaulaylibrary.org/asset/1234567
HrefAsset7 == <<"h","t","t","p","s",":","/","/","m","a","c","a","u","l","a","y","l","i","b","r","a","r","y",".","o","r","g","/","a","s","s","e","t","/","1","2","3","4","5","6","7">>
\* https://macaulaylibrary.org/asset/1234567890123
HrefAsset13 == <<"h","t","t","p","s",":","/","/","m","a","c","a","u","l","a","y","l","i","b","r","a","r","y",".","o","r","g","/","a","s","s","e","t","/","1","2","3","4","5","6","7","8","9","0","1","2","3">>
\* https://cdn.ebird.org/v1/629848993/1200
SrcCdn == <<"h","t","t","p","s",":","/","/","c","d","n",".","e","b","i","r","d",".","o","r","g","/","v","1","/","6","2","9","8","4","8","9","9","3","/","1","2","0","0">>
\* /img/629848963.JPG
SrcJpg == <<"/","i","m","g","/","6","2","9","8","4","8","9","6","3",".","J","P","G">>
\* 629848933
DataId9 == <<"6","2","9","8","4","8","9","3","3">>
\* 12345
DataId5 == <<"1","2","3","4","5">>
\* Photo ML629848903 by A
TextML == <<"P","h","o","t","o"," ","M","L","6","2","9","8","4","8","9","0","3"," ","b","y"," ","A">>
\* {'catalogId':'629848873','assetId': 629849023}
ScriptJson == <<"{","\"","c","a","t","a","l","o","g","I","d","\"",":","\"","6","2","9","8","4","8","8","7","3","\"",",","\"","a","s","s","e","t","I","d","\"",":"," ","6","2","9","8","4","9","0","2","3","}">>
\* no birds today
TextPlain == <<"n","o"," ","b","i","r","d","s"," ","t","o","d","a","y">>

----------------------------------------------------------------------------
(* src/scripts/scrape_inat.py: the iNaturalist scraper *)

\* --taxon=
OptTaxon == <<"-","-","t","a","x","o","n","=">>
\* --quality=
OptQuality == <<"-","-","q","u","a","l","i","t","y","=">>
\* --count=
OptCount == <<"-","-","c","o","u","n","t","=">>
\* --
OptDashes == <<"-","-">>
\* per_page
KeyPerPage == <<"p","e","r","_","p","a","g","e">>
\* order
KeyOrder == <<"o","r","d","e","r">>
\* order_by
KeyOrderBy == <<"o","r","d","e","r","_","b","y">>
\* photos
KeyPhotos == <<"p","h","o","t","o","s">>
\* photo_licensed
KeyPhotoLicensed == <<"p","h","o","t","o","_","l","i","c","e","n","s","e","d">>
\* captive
KeyCaptive == <<"c","a","p","t","i","v","e">>
\* verifiable
KeyVerifiable == <<"v","e","r","i","f","i","a","b","l","e">>
\* taxon_id
KeyTaxonId == <<"t","a","x","o","n","_","i","d">>
\* quality_grade
KeyQualityGrade == <<"q","u","a","l","i","t","y","_","g","r","a","d","e">>
\* desc
ValDesc == <<"d","e","s","c">>
\* created_at
ValCreatedAt == <<"c","r","e","a","t","e","d","_","a","t">>
\* true
ValTrue == <<"t","r","u","e">>
\* false
ValFalse == <<"f","a","l","s","e">>
\* cc0
LitCc0 == <<"c","c","0">>
\* cc-
LitCcDash == <<"c","c","-">>
\* square
LitSquare == <<"s","q","u","a","r","e">>
\* large
LitLarge == <<"l","a","r","g","e">>
\* https://creativecommons.org/licenses/
LicenseBase == <<"h","t","t","p","s",":","/","/","c","r","e","a","t","i","v","e","c","o","m","m","o","n","s",".","o","r","g","/","l","i","c","e","n","s","e","s","/">>
\* /4.0/
LicenseTail == <<"/","4",".","0","/">>
\* https://creativecommons.org/publicdomain/zero/1.0/
PublicDomainUrl == <<"h","t","t","p","s",":","/","/","c","r","e","a","t","i","v","e","c","o","m","m","o","n","s",".","o","r","g","/","p","u","b","l","i","c","d","o","m","a","i","n","/","z","e","r","o","/","1",".","0","/">>
\* https://www.inaturalist.org/observations/
ObsUrlBase == <<"h","t","t","p","s",":","/","/","w","w","w",".","i","n","a","t","u","r","a","l","i","s","t",".","o","r","g","/","o","b","s","e","r","v","a","t","i","o","n","s","/">>
\* Unknown species
UnknownSpecies == <<"U","n","k","n","o","w","n"," ","s","p","e","c","i","e","s">>
\* Unknown
UnknownLogin == <<"U","n","k","n","o","w","n">>
\* Location obscured
LocationObscured == <<"L","o","c","a","t","i","o","n"," ","o","b","s","c","u","r","e","d">>
\* cc-by
CodeCcBy == <<"c","c","-","b","y">>
\* cc-by-nc
CodeCcByNc == <<"c","c","-","b","y","-","n","c">>
\* cc-by-sa
CodeCcBySa == <<"c","c","-","b","y","-","s","a">>
\* cc-by-nd
CodeCcByNd == <<"c","c","-","b","y","-","n","d">>
\* cc-by-nc-sa
CodeCcByNcSa == <<"c","c","-","b","y","-","n","c","-","s","a">>
\* cc-by-nc-nd
CodeCcByNcNd == <<"c","c","-","b","y","-","n","c","-","n","d">>
\* CC BY
NameCcBy == <<"C","C"," ","B","Y">>
\* CC BY-NC
NameCcByNc == <<"C","C"," ","B","Y","-","N","C">>
\* CC BY-SA
NameCcBySa == <<"C","C"," ","B","Y","-","S","A">>
\* CC BY-ND
NameCcByNd == <<"C","C"," ","B","Y","-","N","D">>
\* CC BY-NC-SA
NameCcByNcSa == <<"C","C"," ","B","Y","-","N","C","-","S","A">>
\* CC BY-NC-ND
NameCcByNcNd == <<"C","C"," ","B","Y","-","N","C","-","N","D">>
\* CC0 (Public Domain)
NameCc0 == <<"C","C","0"," ","(","P","u","b","l","i","c"," ","D","o","m","a","i","n",")">>
\* https://via.placeholder.com/1024x768?text=iNaturalist+observation
FbImageUrl == <<"h","t","t","p","s",":","/","/","v","i","a",".","p","l","a","c","e","h","o","l","d","e","r",".","c","o","m","/","1","0","2","4","x","7","6","8","?","t","e","x","t","=","i","N","a","t","u","r","a","l","i","s","t","+","o","b","s","e","r","v","a","t","i","o","n">>
\* Sample Species
FbCommon == <<"S","a","m","p","l","e"," ","S","p","e","c","i","e","s">>
\* Genus species
FbScientific == <<"G","e","n","u","s"," ","s","p","e","c","i","e","s">>
\* Sample Observer
FbObserver == <<"S","a","m","p","l","e"," ","O","b","s","e","r","v","e","r">>
\* observer
FbLogin == <<"o","b","s","e","r","v","e","r">>
\* Dec 15, 2025
FbDate == <<"D","e","c"," ","1","5",","," ","2","0","2","5">>
\* Sample Location
FbLocation == <<"S","a","m","p","l","e"," ","L","o","c","a","t","i","o","n">>
\* CC BY
FbLicenseName == <<"C","C"," ","B","Y">>
\* https://creativecommons.org/licenses/by/4.0/
FbLicenseUrl == <<"h","t","t","p","s",":","/","/","c","r","e","a","t","i","v","e","c","o","m","m","o","n","s",".","o","r","g","/","l","i","c","e","n","s","e","s","/","b","y","/","4",".","0","/">>
\* https://www.inaturalist.org
FbObsUrl == <<"h","t","t","p","s",":","/","/","w","w","w",".","i","n","a","t","u","r","a","l","i","s","t",".","o","r","g">>
\* research
FbQuality == <<"r","e","s","e","a","r","c","h">>
\* eBird Top Photos (Last 7 Days)
SourceEbird == <<"e","B","i","r","d"," ","T","o","p"," ","P","h","o","t","o","s"," ","(","L","a","s","t"," ","7"," ","D","a","y","s",")">>
\* iNaturalist
SourceInat == <<"i","N","a","t","u","r","a","l","i","s","t">>

InatDefaultPerPage == 30
InatApiMaxPerPage == 200

\* the licenses table of get_license_name
LicenseNames ==
    (CodeCcBy :> NameCcBy) @@ (CodeCcByNc :> NameCcByNc) @@ (CodeCcBySa :> NameCcBySa)
        @@ (CodeCcByNd :> NameCcByNd) @@ (CodeCcByNcSa :> NameCcByNcSa)
        @@ (CodeCcByNcNd :> NameCcByNcNd) @@ (LitCc0 :> NameCc0)

\* get_license_name(license_code)
get_license_name(license_code) == Get(LicenseNames, Lower(license_code), Upper(license_code))

\* get_license_url(license_code)
get_license_url(license_code) ==
    IF Lower(license_code) = LitCc0
    THEN PublicDomainUrl
    ELSE LicenseBase \o Replace(Lower(license_code), LitCcDash, <<>>) \o LicenseTail

\* get_fallback_observations()
get_fallback_observations ==
    << [id |-> 123456789,
        image_url |-> FbImageUrl,
        species_common |-> FbCommon,
        species_scientific |-> FbScientific,
        observer |-> FbObserver,
        observer_login |-> FbLogin,
        date |-> FbDate,
        location |-> FbLocation,
        license_code |-> CodeCcBy,
        license_name |-> FbLicenseName,
        license_url |-> FbLicenseUrl,
        obs_url |-> FbObsUrl,
        quality_grade |-> FbQuality] >>

IsNoneDict(d) == "none" \in DOMAIN d

\* obs.get('id'), and how the f-string prints it
ObsId(obs) == IF "id" \in DOMAIN obs THEN obs.id ELSE NoneV
ObsIdStr(obs) == IF "id" \in DOMAIN obs THEN NatToStr(obs.id) ELSE <<"N","o","n","e">>

\* the first photo of a result that has one
FirstPhoto(obs) == Get(obs, "photos", <<>>)[1]

\* the loop body without its license check
NormalizeOutcomeNoLicenseCheck(obs) ==
    IF Len(Get(obs, "photos", <<>>)) = 0 THEN "skip"
    ELSE IF IsNoneDict(Get(obs, "taxon", EmptyDict)) THEN "raise"
    ELSE IF IsNoneDict(Get(obs, "user", EmptyDict)) THEN "raise"
    ELSE IF Get(FirstPhoto(obs), "url", <<>>) = NoneV THEN "raise"
    ELSE "record"

\* what one pass of the loop body does with a raw result:
\*   "skip"   one of the two continue statements
\*   "raise"  an AttributeError: .get on a null taxon or user, .replace on a null url
\*   "record" an observation is appended
NormalizeOutcome(obs) ==
    IF Len(Get(obs, "photos", <<>>)) = 0 THEN "skip"
    ELSE IF IsNoneDict(Get(obs, "taxon", EmptyDict)) THEN "raise"
    ELSE IF IsNoneDict(Get(obs, "user", EmptyDict)) THEN "raise"
    ELSE IF ~Truthy(Get(FirstPhoto(obs), "license_code", NoneV)) THEN "skip"
    ELSE IF Get(FirstPhoto(obs), "url", <<>>) = NoneV THEN "raise"
    ELSE "record"

\* observer_name = user.get('name', observer_login)
ObserverName(user) == Get(user, "name", Get(user, "login", UnknownLogin))

\* the observation dict built from a raw result whose outcome is "record"
Observation(obs) ==
    LET photo == FirstPhoto(obs)
        taxon == Get(obs, "taxon", EmptyDict)
        user == Get(obs, "user", EmptyDict)
        place_guess == Get(obs, "place_guess", <<>>)
        license_code == Get(photo, "license_code", NoneV)
    IN [id |-> ObsId(obs),
        image_url |-> Replace(Get(photo, "url", <<>>), LitSquare, LitLarge),
        species_common |-> Get(taxon, "preferred_common_name", <<>>),
        species_scientific |-> Get(taxon, "name", UnknownSpecies),
        observer |-> ObserverName(user),
        observer_login |-> Get(user, "login", UnknownLogin),
        date |-> Get(obs, "observed_on_string", Get(obs, "created_at", <<>>)),
        location |-> IF Truthy(place_guess) THEN place_guess ELSE LocationObscured,
        license_code |-> license_code,
        license_name |-> get_license_name(license_code),
        license_url |-> get_license_url(license_code),
        obs_url |-> ObsUrlBase \o ObsIdStr(obs),
        quality_grade |-> Get(obs, "quality_grade", <<>>)]

\* an except clause that returns what the loop had built
OnProcessingErrorPartial(partial) == partial

\* what the two except clauses of scrape_inat_observations return
OnRequestError(partial) == get_fallback_observations
OnProcessingError(partial) == get_fallback_observations

\* the loop's exit test after an append: len(observations) >= per_page
LoopBreaks(n, perPage) == n >= perPage

\* the params dict without the limit on per_page
BuildParamsNoCap(taxon, quality, perPage, kwargs) ==
    LET base == (KeyPerPage :> perPage) @@ (KeyOrder :> ValDesc)
                  @@ (KeyOrderBy :> ValCreatedAt) @@ (KeyPhotos :> ValTrue)
                  @@ (KeyPhotoLicensed :> ValTrue) @@ (KeyCaptive :> ValFalse)
                  @@ (KeyVerifiable :> ValTrue)
        withTaxon == IF Truthy(taxon) THEN DictSet(base, KeyTaxonId, taxon) ELSE base
        withQuality == IF Truthy(quality) THEN DictSet(withTaxon, KeyQualityGrade, quality)
                       ELSE withTaxon
    IN DictUpdate(withQuality, kwargs)

\* the params dict of the request
BuildParams(taxon, quality, perPage, kwargs) ==
    LET base == (KeyPerPage :> Min(perPage, InatApiMaxPerPage)) @@ (KeyOrder :> ValDesc)
                  @@ (KeyOrderBy :> ValCreatedAt) @@ (KeyPhotos :> ValTrue)
                  @@ (KeyPhotoLicensed :> ValTrue) @@ (KeyCaptive :> ValFalse)
                  @@ (KeyVerifiable :> ValTrue)
        withTaxon == IF Truthy(taxon) THEN DictSet(base, KeyTaxonId, taxon) ELSE base
        withQuality == IF Truthy(quality) THEN DictSet(withTaxon, KeyQualityGrade, quality)
                       ELSE withTaxon
    IN DictUpdate(withQuality, kwargs)

\* the keyword names of scrape_inat_observations: a **kwargs key equal to one of them
\* makes the call in main raise TypeError (multiple values for a keyword argument)
NamedParameters == {KeyTaxonId, KeyQualityGrade, KeyPerPage}

\* what main's loop body does with one command-line token
ArgKind(arg) ==
    IF StartsWith(arg, OptTaxon) THEN "taxon"
    ELSE IF StartsWith(arg, OptQuality) THEN "quality"
    ELSE IF StartsWith(arg, OptCount) THEN
        (IF IsIntStr(SplitEq(arg)[2]) THEN "count" ELSE "raise")
    ELSE IF StartsWith(arg, OptDashes) THEN
        (IF Len(SplitEq(DropTo(arg, 3))) = 2 THEN "extra" ELSE "raise")
    ELSE "ignored"

\* the data dict save_assets / save_observations dumps
StaticEnvelope(now, assets) ==
    [last_updated |-> now, source |-> SourceEbird, count |-> Len(assets), assets |-> assets]

BrowserEnvelope(now, assets) ==
    [last_updated |-> now, source |-> SourceEbird, count |-> Len(assets), assets |-> assets]

\* the envelope when the taxon is not handed on: the parameter's default ''
ObservationsEnvelopeNoTaxon(now, obsList, taxon) ==
    [last_updated |-> now, source |-> SourceInat, taxon_id |-> <<>>,
     count |-> Len(obsList), observations |-> obsList]

ObservationsEnvelope(now, obsList, taxon) ==
    [last_updated |-> now, source |-> SourceInat, taxon_id |-> taxon,
     count |-> Len(obsList), observations |-> obsList]

----------------------------------------------------------------------------
(* Sample command lines and API results *)

\* --taxon=551307
TokTaxon == <<"-","-","t","a","x","o","n","=","5","5","1","3","0","7">>
\* --quality=research
TokQuality == <<"-","-","q","u","a","l","i","t","y","=","r","e","s","e","a","r","c","h">>
\* --count=1
TokCount1 == <<"-","-","c","o","u","n","t","=","1">>
\* --count=2
TokCount2 == <<"-","-","c","o","u","n","t","=","2">>
\* --count=0
TokCount0 == <<"-","-","c","o","u","n","t","=","0">>
\* --count=250
TokCount250 == <<"-","-","c","o","u","n","t","=","2","5","0">>
\* --count=abc
TokCountBad == <<"-","-","c","o","u","n","t","=","a","b","c">>
\* --term_id=17
TokTerm == <<"-","-","t","e","r","m","_","i","d","=","1","7">>
\* --per_page=500
TokPerPage == <<"-","-","p","e","r","_","p","a","g","e","=","5","0","0">>
\* --verbose
TokNoEq == <<"-","-","v","e","r","b","o","s","e">>
\* sharks
TokStray == <<"s","h","a","r","k","s">>
\* 551307
Taxon551307 == <<"5","5","1","3","0","7">>
\* 47178
TaxonStale == <<"4","7","1","7","8">>
\* https://s.inat.org/p/1/square.jpg
UrlA == <<"h","t","t","p","s",":","/","/","s",".","i","n","a","t",".","o","r","g","/","p","/","1","/","s","q","u","a","r","e",".","j","p","g">>
\* https://s.inat.org/p/2/square.jpg
UrlB == <<"h","t","t","p","s",":","/","/","s",".","i","n","a","t",".","o","r","g","/","p","/","2","/","s","q","u","a","r","e",".","j","p","g">>
\* https://s.inat.org/p/3/medium.jpg
UrlC == <<"h","t","t","p","s",":","/","/","s",".","i","n","a","t",".","o","r","g","/","p","/","3","/","m","e","d","i","u","m",".","j","p","g">>
\* Carcharodon carcharias
SpeciesA == <<"C","a","r","c","h","a","r","o","d","o","n"," ","c","a","r","c","h","a","r","i","a","s">>
\* White Shark
CommonA == <<"W","h","i","t","e"," ","S","h","a","r","k">>
\* Prionace glauca
SpeciesB == <<"P","r","i","o","n","a","c","e"," ","g","l","a","u","c","a">>
\* alice
LoginAlice == <<"a","l","i","c","e">>
\* Alice A
NameAlice == <<"A","l","i","c","e"," ","A">>
\* bob
LoginBob == <<"b","o","b">>
\* carol
LoginCarol == <<"c","a","r","o","l">>
\* dan
LoginDan == <<"d","a","n">>
\* Reef
PlaceA == <<"R","e","e","f">>
\* Dec 1
DateA == <<"D","e","c"," ","1">>
\* 2025-12-02T10:00:00
DateB == <<"2","0","2","5","-","1","2","-","0","2","T","1","0",":","0","0",":","0","0">>
\* research
GradeResearch == <<"r","e","s","e","a","r","c","h">>
\* needs_id
GradeNeedsId == <<"n","e","e","d","s","_","i","d">>
\* CC-BY-NC
CodeUpperByNc == <<"C","C","-","B","Y","-","N","C">>
\* 2025-12-14T06:00:00
Time0 == <<"2","0","2","5","-","1","2","-","1","4","T","0","6",":","0","0",":","0","0">>
\* 2025-12-15T06:00:00
Time1 == <<"2","0","2","5","-","1","2","-","1","5","T","0","6",":","0","0",":","0","0">>
\* 2025-12-15T06:00:01
Time2 == <<"2","0","2","5","-","1","2","-","1","5","T","0","6",":","0","0",":","0","1">>


\* the nodes the sample pages are made of
NodePool ==
    { Node("a", HrefAsset9), Node("a", HrefAsset7), Node("a", HrefAsset13),
      Node("img", SrcCdn), Node("img", SrcJpg),
      Node("data", DataId9), Node("data", DataId5),
      Node("text", TextML), Node("script", ScriptJson), Node("text", TextPlain) }

\* how many nodes a sample page holds at most
MaxNodes == 2

\* the k-th of a family of distinct nine-digit identifiers
BulkId(k) == <<"6","2","9","8">> \o NatToStr(10000 + k)

BulkNode(kind, k) ==
    CASE kind = "a" -> Node("a", LitAssetUrl \o BulkId(k))
      [] kind = "img" -> Node("img", <<"/">> \o BulkId(k) \o <<"/","1">>)
      [] kind = "data" -> Node("data", BulkId(k))
      [] kind = "text" -> Node("text", LitML \o BulkId(k) \o <<" ">>)

\* a page of n nodes with n distinct identifiers, its kinds taken in rotation
BulkPage(n, kinds) == [i \in 1..n |-> BulkNode(kinds[((i - 1) % Len(kinds)) + 1], i)]

AllKinds == <<"a", "img", "data", "text">>

\* pages with one identifier more than each limit of the two scripts (the link limit
\* of the browser script is left out: Pattern 1 finds in the page content every asset
\* link the link loop would find, so the limit cannot change what is collected)
BulkPages ==
    { BulkPage(StaticReturnMax + 1, AllKinds), BulkPage(StaticCap + 1, AllKinds),
      BulkPage(BrowserCap + 1, <<"data", "text">>), BulkPage(BrowserImgLimit + 1, <<"img">>) }

Pages == (UNION {[1..n -> NodePool] : n \in 0..MaxNodes}) \cup BulkPages

TokenPool ==
    { TokTaxon, TokQuality, TokCount1, TokCount2, TokCount0, TokCount250, TokCountBad, TokTerm,
      TokPerPage, TokNoEq, TokStray }

\* how many tokens a command line holds at most
MaxArgs == 2

Argvs == UNION {[1..n -> TokenPool] : n \in 0..MaxArgs}

Licensed(code, url) == [license_code |-> code, url |-> url]

\* a display name, a licensed photo, every field present
RawFull ==
    [id |-> 101, photos |-> <<Licensed(LitCc0, UrlA)>>,
     taxon |-> [name |-> SpeciesA, preferred_common_name |-> CommonA],
     user |-> [login |-> LoginAlice, name |-> NameAlice],
     place_guess |-> PlaceA, observed_on_string |-> DateA, quality_grade |-> GradeResearch]

\* "name": null, an upper-case license code, no place
RawNullName ==
    [id |-> 102, photos |-> <<Licensed(CodeUpperByNc, UrlB), Licensed(LitCc0, UrlA)>>,
     taxon |-> [name |-> SpeciesB],
     user |-> [login |-> LoginBob, name |-> NoneV],
     created_at |-> DateB, quality_grade |-> GradeNeedsId]

\* no name key, no taxon key
RawNoName ==
    [id |-> 103, photos |-> <<Licensed(CodeCcBy, UrlC)>>,
     user |-> [login |-> LoginCarol], place_guess |-> <<>>]

\* "name": ""
RawEmptyName ==
    [id |-> 104, photos |-> <<Licensed(CodeCcBySa, UrlA)>>,
     taxon |-> [name |-> SpeciesA], user |-> [login |-> LoginDan, name |-> <<>>]]

\* an empty photo list
RawNoPhoto ==
    [id |-> 105, photos |-> <<>>, taxon |-> [name |-> SpeciesA],
     user |-> [login |-> LoginAlice, name |-> NameAlice]]

\* a photo without a license code
RawNoLicense ==
    [id |-> 106, photos |-> <<Licensed(NoneV, UrlA)>>, taxon |-> [name |-> SpeciesB],
     user |-> [login |-> LoginBob, name |-> NameAlice]]

\* "taxon": null (an observation nobody has identified)
RawNullTaxon ==
    [id |-> 107, photos |-> <<Licensed(CodeCcBy, UrlB)>>, taxon |-> NoneDict,
     user |-> [login |-> LoginCarol, name |-> NameAlice]]

RawPool ==
    { RawFull, RawNullName, RawNoName, RawEmptyName, RawNoPhoto, RawNoLicense, RawNullTaxon }

\* how many results an API response holds at most
MaxResults == 2

Responses == UNION {[1..n -> RawPool] : n \in 0..MaxResults}

\* the values datetime.now().isoformat() takes during a run
Clock == {Time1, Time2}

\* what an earlier run left in the output file
StaleFile(s) ==
    IF s = "inat"
    THEN ObservationsEnvelope(Time0, get_fallback_observations \o get_fallback_observations, TaxonStale)
    ELSE StaticEnvelope(Time0, <<Fallback8, Fallback7, Fallback6>>)

----------------------------------------------------------------------------
(* The state of one run *)

VARIABLES
    script,             \* which of the three scripts runs
    pc,                 \* the statement the run has reached
    argv,               \* sys.argv[1:], the tokens main has not read yet
    page,               \* the fetched page
    asset_numbers,      \* the matches collected so far, duplicates included
    result,             \* what the scrape function returned
    outcome,            \* the return statement it left by
    caught,             \* the except clauses that caught an exception, in order
    file,               \* the content of the script's output file
    taxon_id,           \* main's locals of the iNaturalist script
    quality_grade,
    per_page,
    additional_params,
    params,             \* the query parameters of the request
    response,           \* data['results'] of the API response
    idx,                \* the loop's position in response
    observations,       \* the records built so far
    lic                 \* a license code and what the two license functions make of it

vars ==
    <<script, pc, argv, page, asset_numbers, result, outcome, caught, file, taxon_id,
      quality_grade, per_page, additional_params, params, response, idx, observations, lic>>

inatLocals == <<taxon_id, quality_grade, per_page, additional_params, params, response, idx, observations>>
ebirdLocals == <<page, asset_numbers>>

Scripts == {"static", "browser", "inat"}

NoLicense == [code |-> <<>>, name |-> <<>>, url |-> <<>>]

Init ==
    /\ script \in Scripts
    /\ pc = "start"
    /\ argv \in (IF script = "inat" THEN Argvs ELSE {<<>>})
    /\ page = <<>>
    /\ asset_numbers = <<>>
    /\ result = <<>>
    /\ outcome = "none"
    /\ caught = <<>>
    /\ file = StaleFile(script)
    /\ taxon_id = <<>>
    /\ quality_grade = <<>>
    /\ per_page = InatDefaultPerPage
    /\ additional_params = EmptyDict
    /\ params = EmptyDict
    /\ response = <<>>
    /\ idx = 0
    /\ observations = <<>>
    /\ lic = NoLicense

\* a return statement of a scrape function
Return(value, how) ==
    /\ result' = value
    /\ outcome' = how
    /\ pc' = "returned"

----------------------------------------------------------------------------
(* The static eBird script, scrape_ebird_photos and main *)

\* requests.get and BeautifulSoup succeed
StaticFetch ==
    /\ script = "static" /\ pc = "start"
    /\ \E p \in Pages : page' = p
    /\ pc' = "pattern1"
    /\ UNCHANGED <<script, argv, asset_numbers, result, outcome, caught, file, inatLocals, lic>>

\* requests.get or raise_for_status raises RequestException, or the parser raises
StaticFetchFails ==
    /\ script = "static" /\ pc = "start"
    /\ \E handler \in {"request", "parse"} : caught' = Append(caught, handler)
    /\ Return(StaticFallbackAssets, "except")
    /\ UNCHANGED <<script, argv, asset_numbers, file, ebirdLocals, inatLocals, lic>>

StaticStep(from, matches, to) ==
    /\ script = "static" /\ pc = from
    /\ asset_numbers' = asset_numbers \o matches
    /\ pc' = to
    /\ UNCHANGED <<script, argv, page, result, outcome, caught, file, inatLocals, lic>>

StaticLinks == StaticStep("pattern1", StaticPattern1(page), "pattern2")
StaticImages == StaticStep("pattern2", StaticPattern2(page), "pattern3")
StaticDataAttrs == StaticStep("pattern3", StaticPattern3(page), "pattern4")
StaticText == StaticStep("pattern4", StaticPattern4(page), "dedupe")

\* the de-duplication loop, the fallback on no match and the return
StaticFinish ==
    /\ script = "static" /\ pc = "dedupe"
    /\ Return(StaticReturn(StaticDedupe(asset_numbers)),
              IF StaticDedupe(asset_numbers) = <<>> THEN "zero" ELSE "normal")
    /\ UNCHANGED <<script, argv, caught, file, ebirdLocals, inatLocals, lic>>

\* save_assets of the static script
StaticSave ==
    /\ script = "static" /\ pc = "returned"
    /\ \E now \in Clock : file' = StaticEnvelope(now, result)
    /\ pc' = "saved"
    /\ UNCHANGED <<script, argv, result, outcome, caught, ebirdLocals, inatLocals, lic>>

----------------------------------------------------------------------------
(* The browser eBird script *)

\* with sync_playwright() as p: entered before the try statement
BrowserStart ==
    /\ script = "browser" /\ pc = "start"
    /\ pc' = "launch"
    /\ UNCHANGED <<script, argv, result, outcome, caught, file, ebirdLocals, inatLocals, lic>>

\* the Playwright driver does not start: raised outside every try
BrowserStartFails ==
    /\ script = "browser" /\ pc = "start"
    /\ pc' = "crashed"
    /\ UNCHANGED <<script, argv, result, outcome, caught, file, ebirdLocals, inatLocals, lic>>

\* launch, new_page, goto, the waits and page.content() succeed
BrowserNavigate ==
    /\ script = "browser" /\ pc = "launch"
    /\ \E p \in Pages : page' = p
    /\ pc' = "imgs"
    /\ UNCHANGED <<script, argv, asset_numbers, result, outcome, caught, file, inatLocals, lic>>

\* one of them raises (no browser, a navigation timeout): the outer except clause
BrowserNavigateFails ==
    /\ script = "browser" /\ pc = "launch"
    /\ caught' = Append(caught, "top")
    /\ Return(BrowserFallbackAssets, "except")
    /\ UNCHANGED <<script, argv, file, ebirdLocals, inatLocals, lic>>

\* the img loop; an exception after k elements is caught by the inner except clause
BrowserImgLoop ==
    /\ script = "browser" /\ pc = "imgs"
    /\ \E raised \in BOOLEAN :
        \E k \in 0..Len(BrowserImgs(page)) :
            /\ IF raised THEN k < Len(BrowserImgs(page)) \/ k = 0 ELSE k = Len(BrowserImgs(page))
            /\ asset_numbers' = asset_numbers \o BrowserImgMatchesUpTo(page, k)
            /\ caught' = IF raised THEN Append(caught, "imgs") ELSE caught
    /\ pc' = "links"
    /\ UNCHANGED <<script, argv, page, result, outcome, file, inatLocals, lic>>

\* the link loop, with its own inner except clause
BrowserLinkLoop ==
    /\ script = "browser" /\ pc = "links"
    /\ \E raised \in BOOLEAN :
        \E k \in 0..Len(BrowserLinks(page)) :
            /\ IF raised THEN k < Len(BrowserLinks(page)) \/ k = 0 ELSE k = Len(BrowserLinks(page))
            /\ asset_numbers' = asset_numbers \o BrowserLinkMatchesUpTo(page, k)
            /\ caught' = IF raised THEN Append(caught, "links") ELSE caught
    /\ pc' = "content"
    /\ UNCHANGED <<script, argv, page, result, outcome, file, inatLocals, lic>>

\* Patterns 1-6 over the page content
BrowserPatterns ==
    /\ script = "browser" /\ pc = "content"
    /\ asset_numbers' = asset_numbers \o BrowserContentMatches(PageContent(page))
    /\ pc' = "close"
    /\ UNCHANGED <<script, argv, page, result, outcome, caught, file, inatLocals, lic>>

\* browser.close(), the de-duplication loop and the two returns that follow it
BrowserFinish ==
    /\ script = "browser" /\ pc = "close"
    /\ Return(BrowserReturn(BrowserDedupe(asset_numbers)),
              IF BrowserDedupe(asset_numbers) = <<>> THEN "zero" ELSE "normal")
    /\ UNCHANGED <<script, argv, caught, file, ebirdLocals, inatLocals, lic>>

\* browser.close() raises: the outer except clause
BrowserCloseFails ==
    /\ script = "browser" /\ pc = "close"
    /\ caught' = Append(caught, "top")
    /\ Return(BrowserFallbackAssets, "except")
    /\ UNCHANGED <<script, argv, file, ebirdLocals, inatLocals, lic>>

\* save_assets of the browser script
BrowserSave ==
    /\ script = "browser" /\ pc = "returned"
    /\ \E now \in Clock : file' = BrowserEnvelope(now, result)
    /\ pc' = "saved"
    /\ UNCHANGED <<script, argv, result, outcome, caught, ebirdLocals, inatLocals, lic>>

----------------------------------------------------------------------------
(* The iNaturalist script *)

\* one pass of main's loop over sys.argv[1:]; int() of a malformed --count= value and
\* the two-name unpacking of a token without '=' raise ValueError outside every try
InatParseArg ==
    /\ script = "inat" /\ pc = "start" /\ argv # <<>>
    /\ LET arg == Head(argv)
           kind == ArgKind(arg)
       IN /\ argv' = IF kind = "raise" THEN argv ELSE Tail(argv)
          /\ pc' = IF kind = "raise" THEN "crashed" ELSE "start"
          /\ taxon_id' = IF kind = "taxon" THEN SplitEq(arg)[2] ELSE taxon_id
          /\ quality_grade' = IF kind = "quality" THEN SplitEq(arg)[2] ELSE quality_grade
          /\ per_page' = IF kind = "count" THEN ParseInt(SplitEq(arg)[2]) ELSE per_page
          /\ additional_params' =
                IF kind = "extra"
                THEN DictSet(additional_params, SplitEq(DropTo(arg, 3))[1], SplitEq(DropTo(arg, 3))[2])
                ELSE additional_params
    /\ UNCHANGED <<script, result, outcome, caught, file, ebirdLocals, params, response, idx,
                   observations, lic>>

\* the call of scrape_inat_observations and the building of params
InatCall ==
    /\ script = "inat" /\ pc = "start" /\ argv = <<>>
    /\ IF (DOMAIN additional_params) \cap NamedParameters # {}
       THEN pc' = "crashed" /\ params' = params
       ELSE pc' = "request"
            /\ params' = BuildParams(taxon_id, quality_grade, per_page, additional_params)
    /\ UNCHANGED <<script, argv, result, outcome, caught, file, ebirdLocals, taxon_id,
                   quality_grade, per_page, additional_params, response, idx, observations, lic>>

\* requests.get, raise_for_status and response.json() succeed
InatResponse ==
    /\ script = "inat" /\ pc = "request"
    /\ \E r \in Responses : response' = r
    /\ idx' = 1
    /\ pc' = "loop"
    /\ UNCHANGED <<script, argv, result, outcome, caught, file, ebirdLocals, taxon_id,
                   quality_grade, per_page, additional_params, params, observations, lic>>

\* a timeout, a connection error or an HTTP error status: except RequestException
InatRequestFails ==
    /\ script = "inat" /\ pc = "request"
    /\ caught' = Append(caught, "request")
    /\ Return(OnRequestError(observations), "except")
    /\ UNCHANGED <<script, argv, file, ebirdLocals, inatLocals, lic>>

\* the body is not JSON, or not the expected shape: except Exception
InatParseFails ==
    /\ script = "inat" /\ pc = "request"
    /\ caught' = Append(caught, "processing")
    /\ Return(OnProcessingError(observations), "except")
    /\ UNCHANGED <<script, argv, file, ebirdLocals, inatLocals, lic>>

\* one pass of the loop over the results
InatLoopStep ==
    /\ script = "inat" /\ pc = "loop" /\ idx <= Len(response)
    /\ LET obs == response[idx]
           what == NormalizeOutcome(obs)
       IN CASE what = "skip" ->
                /\ idx' = idx + 1
                /\ UNCHANGED <<pc, observations, result, outcome, caught>>
            [] what = "record" ->
                /\ idx' = idx + 1
                /\ observations' = Append(observations, Observation(obs))
                /\ pc' = IF LoopBreaks(Len(observations) + 1, per_page) THEN "endloop" ELSE "loop"
                /\ UNCHANGED <<result, outcome, caught>>
            [] what = "raise" ->
                /\ caught' = Append(caught, "processing")
                /\ Return(OnProcessingError(observations), "except")
                /\ UNCHANGED <<idx, observations>>
    /\ UNCHANGED <<script, argv, file, ebirdLocals, taxon_id, quality_grade, per_page,
                   additional_params, params, response, lic>>

\* the loop is over (exhausted, or left by break): return observations
InatReturn ==
    /\ script = "inat"
    /\ pc = "endloop" \/ (pc = "loop" /\ idx > Len(response))
    /\ Return(observations, "normal")
    /\ UNCHANGED <<script, argv, caught, file, ebirdLocals, inatLocals, lic>>

\* save_observations(observations, taxon_id)
InatSave ==
    /\ script = "inat" /\ pc = "returned"
    /\ \E now \in Clock : file' = ObservationsEnvelope(now, result, taxon_id)
    /\ pc' = "saved"
    /\ UNCHANGED <<script, argv, result, outcome, caught, ebirdLocals, inatLocals, lic>>

\* the closing banner of main: the script ends with exit status 0
Finish ==
    /\ pc = "saved"
    /\ pc' = "done"
    /\ UNCHANGED <<script, argv, result, outcome, caught, file, ebirdLocals, inatLocals, lic>>

Next ==
    \/ StaticFetch \/ StaticFetchFails \/ StaticLinks \/ StaticImages \/ StaticDataAttrs
    \/ StaticText \/ StaticFinish \/ StaticSave
    \/ BrowserStart \/ BrowserStartFails \/ BrowserNavigate \/ BrowserNavigateFails
    \/ BrowserImgLoop \/ BrowserLinkLoop \/ BrowserPatterns \/ BrowserFinish
    \/ BrowserCloseFails \/ BrowserSave
    \/ InatParseArg \/ InatCall \/ InatResponse \/ InatRequestFails \/ InatParseFails
    \/ InatLoopStep \/ InatReturn \/ InatSave
    \/ Finish

Spec == Init /\ [][Next]_vars

----------------------------------------------------------------------------
(* The two license functions on their own: a code is drawn, then            *)
(* get_license_name and get_license_url are applied to it, in either order *)

\* gfdl
CodeGfdl == <<"g","f","d","l">>
\* pd
CodePd == <<"p","d">>
\* cc-zero
CodeCcZero == <<"c","c","-","z","e","r","o">>

\* nc-cc-by
CodeNcCcBy == <<"n","c","-","c","c","-","b","y">>

\* the seven codes of the table and four the table does not know, one of them with
\* cc- in its middle
BaseCodes ==
    { CodeCcBy, CodeCcByNc, CodeCcBySa, CodeCcByNd, CodeCcByNcSa, CodeCcByNcNd, LitCc0,
      CodeGfdl, CodePd, CodeCcZero, CodeNcCcBy }

\* every other letter in upper case
MixCase(s) == [i \in 1..Len(s) |-> IF i % 2 = 1 THEN UpperChar(s[i]) ELSE s[i]]

\* each code in lower, upper and mixed case
LicenseCodes == BaseCodes \cup {Upper(c) : c \in BaseCodes} \cup {MixCase(c) : c \in BaseCodes}

InitLicense ==
    /\ script = "inat"
    /\ pc = "license"
    /\ argv = <<>>
    /\ page = <<>>
    /\ asset_numbers = <<>>
    /\ result = <<>>
    /\ outcome = "none"
    /\ caught = <<>>
    /\ file = StaleFile(script)
    /\ taxon_id = <<>>
    /\ quality_grade = <<>>
    /\ per_page = InatDefaultPerPage
    /\ additional_params = EmptyDict
    /\ params = EmptyDict
    /\ response = <<>>
    /\ idx = 0
    /\ observations = <<>>
    /\ \E c \in LicenseCodes : lic = [code |-> c, name |-> <<>>, url |-> <<>>]

LicenseName ==
    /\ pc = "license" /\ lic.name = <<>>
    /\ lic' = [lic EXCEPT !.name = get_license_name(lic.code)]
    /\ UNCHANGED <<script, pc, argv, result, outcome, caught, file, ebirdLocals, inatLocals>>

LicenseUrl ==
    /\ pc = "license" /\ lic.url = <<>>
    /\ lic' = [lic EXCEPT !.url = get_license_url(lic.code)]
    /\ UNCHANGED <<script, pc, argv, result, outcome, caught, file, ebirdLocals, inatLocals>>

NextLicense == LicenseName \/ LicenseUrl

SpecLicense == InitLicense /\ [][NextLicense]_vars

----------------------------------------------------------------------------
(* Properties *)

Ebird == script \in {"static", "browser"}
Returned == pc \in {"returned", "saved", "done"}
Written == pc \in {"saved", "done"}

\* the distinct collected matches that are long enough to count
Qualifying == {x \in Range(asset_numbers) : Len(x) >= 8}

\* get_fallback_assets() of the running eBird script
FallbackAssetsOf(s) == IF s = "static" THEN StaticFallbackAssets ELSE BrowserFallbackAssets

\* a raw result with a photo whose first photo carries a license code
ValidResult(r) ==
    /\ "photos" \in DOMAIN r
    /\ Len(r.photos) > 0
    /\ "license_code" \in DOMAIN r.photos[1]
    /\ r.photos[1].license_code # NoneV
    /\ r.photos[1].license_code # <<>>

ValidResults(resp) == SelectSeq(resp, ValidResult)

C2_NeverCrashes ==
    /\ pc # "crashed"
    /\ (Returned /\ outcome = "except") =>
            result = (IF script = "inat" THEN get_fallback_observations ELSE FallbackAssetsOf(script))
    /\ pc = "done" => (file.count = Len(result) /\ file.last_updated \in Clock)

\* C3: an eBird scraper never returns an empty list, and when the heuristics ran and
\* no collected match has length >= 8 it returns the eight identifiers of
\* get_fallback_assets(), element for element.
C3_ZeroMatchesGiveFallback ==
    (Ebird /\ Returned) =>
        /\ result # <<>>
        /\ (outcome # "except" /\ Qualifying = {}) =>
                (result = FallbackAssetsOf(script) /\ Len(result) = 8)

\* the static scraper matched only strings that are too short and returned the fallback
C3_Witness ==
    /\ script = "static" /\ Returned /\ outcome # "except"
    /\ asset_numbers # <<>> /\ Qualifying = {}
    /\ result = StaticFallbackAssets

\* C4: on the success path the returned list is, in API order, an initial segment of
\* the records of the results that have a photo whose first photo has a license code;
\* it is cut short only by the requested count, and every record has a license code.
C4_OnlyLicensedPhotos ==
    (script = "inat" /\ Returned /\ outcome = "normal") =>
        LET valid == ValidResults(response) IN
        /\ Len(result) <= Len(valid)
        /\ \A i \in 1..Len(result) : result[i] = Observation(valid[i])
        /\ Len(result) < Len(valid) => Len(result) >= per_page
        /\ \A i \in 1..Len(result) : result[i].license_code \notin {NoneV, <<>>}

\* a result without a license code was left out and the one after it was kept
C4_Witness ==
    /\ script = "inat" /\ Returned /\ outcome = "normal"
    /\ Len(response) = 2 /\ response[1] = RawNoLicense /\ response[2] = RawFull
    /\ Len(result) = 1 /\ result[1].id = RawFull.id

\* CC0 (Public Domain)
ClaimedCc0Name == <<"C","C","0"," ","(","P","u","b","l","i","c"," ","D","o","m","a","i","n",")">>
\* https://creativecommons.org/publicdomain/zero/1.0/
ClaimedPublicDomainUrl == <<"h","t","t","p","s",":","/","/","c","r","e","a","t","i","v","e","c","o","m","m","o","n","s",".","o","r","g","/","p","u","b","l","i","c","d","o","m","a","i","n","/","z","e","r","o","/","1",".","0","/">>
\* https://creativecommons.org/licenses/
ClaimedLicensesUrl == <<"h","t","t","p","s",":","/","/","c","r","e","a","t","i","v","e","c","o","m","m","o","n","s",".","o","r","g","/","l","i","c","e","n","s","e","s","/">>
\* /4.0/
ClaimedVersionTail == <<"/","4",".","0","/">>
\* https://creativecommons.org/licenses/by-nc/4.0/
ClaimedByNcUrl == <<"h","t","t","p","s",":","/","/","c","r","e","a","t","i","v","e","c","o","m","m","o","n","s",".","o","r","g","/","l","i","c","e","n","s","e","s","/","b","y","-","n","c","/","4",".","0","/">>
\* Genus species
ClaimedPlaceholderSpecies == <<"G","e","n","u","s"," ","s","p","e","c","i","e","s">>

\* C5: when the request or the processing of a result raised, scrape_inat_observations
\* returns exactly the one-element placeholder list, whose species_scientific is
\* "Genus species", whatever had been accumulated.
C5_ExceptionGivesPlaceholder ==
    (script = "inat" /\ Returned /\ caught # <<>>) =>
        /\ Len(result) = 1
        /\ result = get_fallback_observations
        /\ result[1].species_scientific = ClaimedPlaceholderSpecies

\* a result raised after an earlier one had been normalized
C5_Witness ==
    /\ script = "inat" /\ Returned /\ caught # <<>>
    /\ observations # <<>>
    /\ Len(result) = 1

\* C6: on the success path the count written never exceeds the requested count c, and
\* equals c when the response holds at least c valid results.
C6_NeverMoreThanRequested ==
    (script = "inat" /\ Written /\ outcome = "normal") =>
        /\ file.count <= per_page
        /\ Len(ValidResults(response)) >= per_page => file.count = per_page

\* C7: every identifier an eBird scraper writes is a string of 8 to 12 digits.
C7_EightToTwelveDigits ==
    (Ebird /\ Written) =>
        \A i \in 1..Len(file.assets) :
            /\ IsDigitStr(file.assets[i])
            /\ Len(file.assets[i]) >= 8
            /\ Len(file.assets[i]) <= 12

\* C8: the observer of every record is the display name when one is set and the login
\* when the name is absent, null or empty; it is never null or empty.
C8_ObserverFallsBackToLogin ==
    (script = "inat" /\ Returned /\ outcome = "normal") =>
        \A i \in 1..Len(result) :
            LET user == ValidResults(response)[i].user IN
            /\ result[i].observer =
                    (IF "name" \in DOMAIN user /\ user.name # NoneV /\ user.name # <<>>
                     THEN user.name ELSE user.login)
            /\ result[i].observer \notin {NoneV, <<>>}

\* the code of a license, lower-cased, without a leading cc-
LicenseType(code) ==
    IF StartsWith(Lower(code), LitCcDash) THEN DropTo(Lower(code), Len(LitCcDash) + 1)
    ELSE Lower(code)

FreshEnvelope ==
    Written =>
        IF script = "inat"
        THEN /\ DOMAIN file = {"last_updated", "source", "taxon_id", "count", "observations"}
             /\ file.count = Len(file.observations)
             /\ file.observations = result
             /\ file.taxon_id = taxon_id
             /\ file.last_updated \in Clock
        ELSE /\ DOMAIN file = {"last_updated", "source", "count", "assets"}
             /\ file.count = Len(file.assets)
             /\ file.assets = result
             /\ file.last_updated \in Clock

\* taxon_id is set by a --taxon= token, to the text after the '=', and by nothing else
TaxonFromCommandLine ==
    taxon_id' =
        IF script = "inat" /\ pc = "start" /\ argv # <<>> /\ StartsWith(Head(argv), OptTaxon)
        THEN DropTo(Head(argv), Len(OptTaxon) + 1)
        ELSE taxon_id

\* C10: every written file has count equal to the number of elements of its list, which
\* is the list this run returned, never anything of the earlier file; the iNaturalist
\* file's taxon_id is the value of the last --taxon= token, '' when there was none.
C10_EnvelopeOfThisRun ==
    /\ taxon_id = <<>>
    /\ [][TaxonFromCommandLine]_vars
    /\ []FreshEnvelope

\* the iNaturalist script wrote the placeholder under the taxon of the command line
C10_Witness ==
    /\ script = "inat" /\ Written /\ outcome = "except"
    /\ taxon_id = Taxon551307
    /\ file.taxon_id = Taxon551307 /\ file.count = 1


\* what each kind of heuristic, in the order the claim gives them, finds on the page:
\* 1 anchor href, 2 image src, 3 data attributes, 4 embedded JSON fields, 5 raw-text ML
FoundBy(k) ==
    IF script = "static"
    THEN CASE k = 1 -> Range(StaticPattern1(page))
           [] k = 2 -> Range(StaticPattern2(page))
           [] k = 3 -> Range(StaticPattern3(page))
           [] k = 4 -> {}
           [] k = 5 -> Range(StaticPattern4(page))
    ELSE LET content == PageContent(page) IN
         CASE k = 1 -> Range(BrowserLinkMatches(page)) \cup Range(FindAll(ReBrowserPattern1, content))
           [] k = 2 -> Range(BrowserImgMatches(page)) \cup Range(FindAll(ReBrowserPattern5, content))
           [] k = 3 -> Range(FindAll(ReBrowserPattern6, content))
           [] k = 4 -> Range(FindAll(ReBrowserPattern3, content))
                            \cup Range(FindAll(ReBrowserPattern4, content))
           [] k = 5 -> Range(FindAll(ReBrowserPattern2, content))

\* the first heuristic of the claimed order that finds x
FirstHeuristic(x) ==
    LET ks == {k \in 1..5 : x \in FoundBy(k)}
    IN CHOOSE k \in ks : \A j \in ks : k <= j

\* where x first occurs in a sequence that holds it
FirstIndex(s, x) == CHOOSE i \in 1..Len(s) : s[i] = x /\ \A j \in 1..(i - 1) : s[j] # x

\* the returned identifiers keep the order of their first occurrence among the matches
InFirstOccurrenceOrder ==
    \A i, j \in 1..Len(result) :
        i < j => FirstIndex(asset_numbers, result[i]) < FirstIndex(asset_numbers, result[j])

\* an identifier first found by an earlier heuristic precedes one first found by a later one
InHeuristicOrder ==
    \A i, j \in 1..Len(result) :
        i < j => FirstHeuristic(result[i]) <= FirstHeuristic(result[j])

\* C11: when an eBird scraper returns identifiers it found (no loop was cut short by an
\* exception), they are in the order of their first occurrence among the collected
\* matches, and one first found by an earlier heuristic of the order anchor href, image
\* src, data attributes, embedded JSON, raw-text ML precedes one first found by a later.
C11_HeuristicOrder ==
    (Ebird /\ Returned /\ outcome = "normal" /\ caught = <<>>) =>
        (InFirstOccurrenceOrder /\ InHeuristicOrder)

\* the same for the static scraper alone
C11_StaticOnly == script = "static" => C11_HeuristicOrder

\* the same without the order of the heuristics
C11_FirstOccurrenceOnly ==
    (Ebird /\ Returned /\ outcome = "normal" /\ caught = <<>>) => InFirstOccurrenceOrder


\* the run has built the parameters of its request
RequestBuilt == script = "inat" /\ pc \notin {"start", "crashed", "license"}

\* C12: every request the iNaturalist script sends carries a per_page parameter of at
\* most 200, whatever --count= asked for, and a run whose command line passes per_page
\* through as an extra parameter sends no request.
C12_PerPageAtMost200 ==
    /\ RequestBuilt =>
            /\ KeyPerPage \in DOMAIN params
            /\ params[KeyPerPage] <= 200
            /\ params[KeyPerPage] = Min(per_page, 200)
    /\ (script = "inat" /\ KeyPerPage \in DOMAIN additional_params) => ~RequestBuilt

\* a request was built after --count=250 and an extra parameter: it asks for 200
C12_Witness ==
    /\ RequestBuilt
    /\ per_page = 250
    /\ additional_params # EmptyDict
    /\ params[KeyPerPage] = 200

====
